---- MODULE Spec2Model ----
(***************************************************************************)
(* otk/transform.py: the recursive resolver and the directive dispatcher.  *)
(*                                                                         *)
(* One resolution session, resolve(ctx, tree, state), is run as a machine  *)
(* with an explicit call stack: a frame per active resolve_dict loop, list *)
(* comprehension of resolve_list, include() call and otk.external call.    *)
(* A Python exception ends the session with the exception's name in err.   *)
(*                                                                         *)
(* Mappings are objects: resolve_dict works on its argument in place and   *)
(* returns it, so the mappings live in a heap and a tree holds references  *)
(* to them. A mapping that two keys share (a YAML alias) is one object,    *)
(* and a store into it shows under both.                                   *)
(***************************************************************************)
EXTENDS Integers, Sequences, FiniteSets, TLC

VARIABLES
    input,      \* the arguments of the session: [tree, shared, vars, state]
    heap,       \* the mapping objects: address -> items, in insertion order
    state,      \* ParserState [path, in_define] passed to every call
    stack,      \* active calls, innermost last
    mode,       \* "call" | "step" | "ret" | "done" | "raise"
    reg,        \* mode "call": the argument tree; "ret"/"done": the value returned
    err,        \* mode "raise": the exception that ended the session
    scope,      \* ctx: the variables of the Context, name -> node
    calls,      \* every string handed to desugar, in order
    defined     \* every (key, val) define was called with, in order

vars == <<input, state, heap, stack, mode, reg, err, scope, calls, defined>>

----------------------------------------------------------------------------
(* Bounds of the checked inputs. *)

MaxKeys == 2
MaxElems == 1
\* how many mappings deep a result is read back from the heap
Depth == 6

----------------------------------------------------------------------------
(* Tree nodes: the values yaml.safe_load produces. *)

IntV(n) == [t |-> "int", n |-> n]
StrV(s) == [t |-> "str", s |-> s]
NoneV == [t |-> "none"]
ListV(e) == [t |-> "list", e |-> e]
DictV(items) == [t |-> "dict", items |-> items]
\* a reference to the mapping object at address a
RefV(a) == [t |-> "ref", a |-> a]
Item(k, v) == [k |-> k, v |-> v]
\* a value of a type resolve has no resolver for (yaml timestamps, bytes, sets)
Other == [t |-> "other"]

Range(s) == {s[i] : i \in 1..Len(s)}

SeqsUpTo(S, n) == UNION {[1..m -> S] : m \in 0..n}

----------------------------------------------------------------------------
(* dict operations, insertion order kept as Python keeps it *)

dict_keys(items) == [i \in 1..Len(items) |-> items[i].k]

dict_has(items, key) == \E i \in 1..Len(items) : items[i].k = key

dict_get(items, key) ==
    items[CHOOSE i \in 1..Len(items) : items[i].k = key].v

dict_set(items, key, val) ==
    IF dict_has(items, key)
    THEN [i \in 1..Len(items) |->
            IF items[i].k = key THEN Item(key, val) ELSE items[i]]
    ELSE Append(items, Item(key, val))

dict_del(items, key) == SelectSeq(items, LAMBDA it : it.k # key)

startswith(s, p) == Len(s) >= Len(p) /\ SubSeq(s, 1, Len(p)) = p

\* the branch of resolve_dict a key takes, tested in the order of the code
Kind(key) ==
    IF ~startswith(key, "otk.") THEN "field"
    ELSE IF startswith(key, "otk.define") THEN "define"
    ELSE IF key = "otk.version" THEN "version"
    ELSE IF startswith(key, "otk.target") THEN "target"
    ELSE IF startswith(key, "otk.include") THEN "include"
    ELSE IF startswith(key, "otk.op") THEN "op"
    ELSE IF startswith(key, "otk.external.") THEN "external"
    ELSE "unknown"

----------------------------------------------------------------------------
(* Collaborators imported by transform.py *)

IsRef(s) ==
    /\ Len(s) >= 4
    /\ SubSeq(s, 1, 2) = "${"
    /\ SubSeq(s, Len(s), Len(s)) = "}"

RefName(s) == SubSeq(s, 3, Len(s) - 1)

\* directive.desugar: a string that is a variable reference becomes the
\* variable's value, any other string is left as it is
desugar(vs, s) ==
    IF IsRef(s)
    THEN IF RefName(s) \in DOMAIN vs
         THEN [st |-> "ok", val |-> vs[RefName(s)]]
         ELSE [st |-> "UndefinedVariableError", val |-> NoneV]
    ELSE [st |-> "ok", val |-> StrV(s)]

\* directive.define as called on line 82, define(key, val): line 62 calls it
\* as define(ctx, tree), so here the key stands where the context is expected
\* and the call has no reference to ctx. It registers the entries of the
\* mapping tree in its first argument: with a tree that is no mapping, or an
\* entry to register in a string, it raises; h is the heap
define(k, v, h) ==
    IF v.t = "ref" /\ h[v.a] = <<>> THEN "ok" ELSE "AttributeError"

RegisteredExternals == {"otk.external.e"}

\* external.call: the external's result for a registered name
call(key, val) ==
    IF key \in RegisteredExternals
    THEN [st |-> "ok", val |-> DictV(<<Item("out", val)>>)]
    ELSE [st |-> "UnknownExternalError", val |-> NoneV]

----------------------------------------------------------------------------
(* The inputs of a session *)

Leaves == {IntV(1), StrV("s"), StrV("${a}")}

BindsA == DictV(<<Item("a", IntV(1))>>)

DefinesA == DictV(<<Item("otk.define", BindsA)>>)

TemplateB == DictV(<<Item("b", StrV("${a}"))>>)

InnerItems ==
    { Item("a", IntV(1)), Item("b", StrV("${a}")), Item("otk.define", BindsA),
      Item("otk.version", StrV("${a}")), Item("otk.target.t", StrV("${a}")),
      Item("otk.bogus", StrV("${a}")) }

NestedDicts == {DictV(<<it>>) : it \in InnerItems} \cup {DictV(<<>>)}

ListElems == {StrV("${a}"), BindsA, DefinesA}

Lists == {ListV(e) : e \in SeqsUpTo(ListElems, MaxElems)}

\* a mapping that goes on after an unknown directive, and a binding two levels down
DeepValues ==
    { DictV(<<Item("otk.bogus", IntV(1)), Item("b", StrV("${a}"))>>),
      DictV(<<Item("n", ListV(<<BindsA>>))>>) }

Values == Leaves \cup NestedDicts \cup Lists \cup DeepValues \cup {NoneV, Other}

FieldKeys == {"m", "x"}

DirectiveItems ==
    { Item("otk.define", BindsA), Item("otk.define", IntV(1)),
      Item("otk.version", IntV(1)), Item("otk.version", StrV("${a}")),
      Item("otk.version", TemplateB),
      Item("otk.target.t", StrV("${a}")), Item("otk.target.t", TemplateB),
      Item("otk.targetx", BindsA),
      Item("otk.include", StrV("f")), Item("otk.include", StrV("g")),
      Item("otk.include", StrV("${a}")),
      Item("otk.op.o", IntV(1)),
      Item("otk.external.e", StrV("${a}")), Item("otk.external.zz", IntV(1)),
      Item("otk.external", IntV(1)), Item("otk.bogus", IntV(1)) }

RootItems == {Item(k, v) : k \in FieldKeys, v \in Values} \cup DirectiveItems

Mappings ==
    {DictV(items) : items \in
        {s \in SeqsUpTo(RootItems, MaxKeys) :
            \A i, j \in 1..Len(s) : s[i].k = s[j].k => i = j}}

Trees == Mappings \cup Values

NoVars == [n \in {} |-> NoneV]

Scopes == {NoVars, "a" :> IntV(1)}

ParserStates == [path : {"base"}, in_define : BOOLEAN]

----------------------------------------------------------------------------
(* yaml.safe_load: the document as objects. With shared, equal mappings of
   the document are one object (an anchor and its aliases); without, every
   mapping is an object of its own. *)

RECURSIVE LoadNode(_, _, _)
RECURSIVE LoadSeq(_, _, _, _)

\* st = [heap, src]: the objects so far and the document node each came from
LoadNode(node, shared, st) ==
    CASE node.t = "dict" ->
           IF shared /\ \E a \in 1..Len(st.src) : st.src[a] = node
           THEN [val |-> RefV(CHOOSE a \in 1..Len(st.src) : st.src[a] = node),
                 st |-> st]
           ELSE LET r == LoadSeq([i \in 1..Len(node.items) |-> node.items[i].v],
                                 shared, st, <<>>)
                    items == [i \in 1..Len(node.items) |->
                                Item(node.items[i].k, r.vals[i])]
                IN [val |-> RefV(Len(r.st.heap) + 1),
                    st |-> [heap |-> Append(r.st.heap, items),
                            src |-> Append(r.st.src, node)]]
      [] node.t = "list" ->
           LET r == LoadSeq(node.e, shared, st, <<>>)
           IN [val |-> ListV(r.vals), st |-> r.st]
      [] OTHER -> [val |-> node, st |-> st]

LoadSeq(nodes, shared, st, acc) ==
    IF nodes = <<>>
    THEN [vals |-> acc, st |-> st]
    ELSE LET r == LoadNode(Head(nodes), shared, st)
         IN LoadSeq(Tail(nodes), shared, r.st, Append(acc, r.val))

Load(node, shared) == LoadNode(node, shared, [heap |-> <<>>, src |-> <<>>])

\* shared is an input of its own only for a document that repeats a mapping
Inputs ==
    {in \in [tree : Trees, shared : BOOLEAN, vars : Scopes, state : ParserStates] :
        in.shared => Load(in.tree, TRUE) # Load(in.tree, FALSE)}

\* the tree under val, read back from the heap h, n mappings deep
RECURSIVE Deref(_, _, _)
Deref(v, h, n) ==
    CASE v.t = "ref" ->
           IF n = 0 THEN [t |-> "cut"]
           ELSE DictV([i \in 1..Len(h[v.a]) |->
                         Item(h[v.a][i].k, Deref(h[v.a][i].v, h, n - 1))])
      [] v.t = "list" -> ListV([i \in 1..Len(v.e) |-> Deref(v.e[i], h, n)])
      [] OTHER -> v

----------------------------------------------------------------------------
(* The session *)

Init ==
    /\ input \in Inputs
    /\ state = input.state
    /\ stack = <<>>
    /\ mode = "call"
    /\ heap = Load(input.tree, input.shared).st.heap
    /\ reg = Load(input.tree, input.shared).val
    /\ err = ""
    /\ scope = input.vars
    /\ calls = <<>>
    /\ defined = <<>>

top == stack[Len(stack)]

Push(fr) == stack' = Append(stack, fr)

Pop == stack' = SubSeq(stack, 1, Len(stack) - 1)

SetTop(fr) == stack' = [stack EXCEPT ![Len(stack)] = fr]

\* an exception nobody catches: every active call is abandoned
Raise(e) ==
    /\ mode' = "raise"
    /\ err' = e
    /\ stack' = <<>>
    /\ reg' = NoneV

\* the call resolve(ctx, node, state)
Call(node) == mode' = "call" /\ reg' = node

\* a call returning val to the frame below
Return(val) == mode' = "ret" /\ reg' = val

----------------------------------------------------------------------------
(* resolve: dispatch on the type of the tree *)

ResolveDict ==
    /\ mode = "call" /\ reg.t = "ref"
    /\ Push([f |-> "dict", a |-> reg.a, keys |-> dict_keys(heap[reg.a]), i |-> 1])
    /\ mode' = "step"
    /\ UNCHANGED <<input, state, heap, reg, err, scope, calls, defined>>

ResolveList ==
    /\ mode = "call" /\ reg.t = "list"
    /\ Push([f |-> "list", src |-> reg.e, acc |-> <<>>, i |-> 1])
    /\ mode' = "step"
    /\ UNCHANGED <<input, state, heap, reg, err, scope, calls, defined>>

\* resolve_str: the string goes to desugar
ResolveStr ==
    /\ mode = "call" /\ reg.t = "str"
    /\ calls' = Append(calls, reg.s)
    /\ LET r == desugar(scope, reg.s) IN
         IF r.st = "ok"
         THEN Return(r.val) /\ UNCHANGED <<stack, err>>
         ELSE Raise(r.st)
    /\ UNCHANGED <<input, state, heap, scope, defined>>

ResolveScalar ==
    /\ mode = "call" /\ reg.t \in {"int", "none"}
    /\ Return(reg)
    /\ UNCHANGED <<input, state, heap, stack, err, scope, calls, defined>>

ResolveUnsupported ==
    /\ mode = "call" /\ reg.t \notin {"ref", "list", "str", "int", "none"}
    /\ Raise("Exception")
    /\ UNCHANGED <<input, state, heap, scope, calls, defined>>

----------------------------------------------------------------------------
(* resolve_dict: one iteration of the loop over list(tree.keys()) *)

AtKey(kind) ==
    /\ mode = "step"
    /\ top.f = "dict"
    /\ top.i <= Len(top.keys)
    /\ Kind(top.keys[top.i]) = kind

key == top.keys[top.i]

val == dict_get(heap[top.a], key)

NextKey == SetTop([top EXCEPT !.i = @ + 1])

\* ParserState(path=state.path, in_include=True): ParserState has no such field
Define ==
    /\ AtKey("define")
    /\ Raise("TypeError")
    /\ UNCHANGED <<input, state, heap, scope, calls, defined>>

Version ==
    /\ AtKey("version")
    /\ NextKey
    /\ UNCHANGED <<input, state, heap, mode, reg, err, scope, calls, defined>>

Target ==
    /\ AtKey("target")
    /\ NextKey
    /\ UNCHANGED <<input, state, heap, mode, reg, err, scope, calls, defined>>

\* del tree[key], then include(ctx, val, state) resolves the payload first
Include ==
    /\ AtKey("include")
    /\ heap' = [heap EXCEPT ![top.a] = dict_del(@, key)]
    /\ Push([f |-> "include"])
    /\ Call(val)
    /\ UNCHANGED <<input, state, err, scope, calls, defined>>

\* resolve(ctx, val): the argument state is missing
Op ==
    /\ AtKey("op")
    /\ Raise("TypeError")
    /\ UNCHANGED <<input, state, heap, scope, calls, defined>>

\* the innermost call of line 76, resolve(ctx, val, state)
External ==
    /\ AtKey("external")
    /\ Push([f |-> "external", key |-> key])
    /\ Call(val)
    /\ UNCHANGED <<input, state, heap, err, scope, calls, defined>>

\* log.error and return tree: the loop is left with the tree as it is
Unknown ==
    /\ AtKey("unknown")
    /\ Pop
    /\ Return(RefV(top.a))
    /\ UNCHANGED <<input, state, heap, err, scope, calls, defined>>

\* a plain key under in_define whose define(key, val) raises
FieldDefineFails ==
    /\ AtKey("field")
    /\ state.in_define
    /\ define(key, val, heap) # "ok"
    /\ defined' = Append(defined, Item(key, val))
    /\ Raise(define(key, val, heap))
    /\ UNCHANGED <<input, state, heap, scope, calls>>

\* a plain key: define(key, val) when in_define, then resolve(ctx, val, state)
Field ==
    /\ AtKey("field")
    /\ IF state.in_define
       THEN /\ define(key, val, heap) = "ok"
            /\ defined' = Append(defined, Item(key, val))
       ELSE UNCHANGED defined
    /\ Call(val)
    /\ UNCHANGED <<input, state, heap, stack, err, scope, calls>>

\* tree[key] = the value resolve returned
FieldStore ==
    /\ mode = "ret" /\ stack # <<>> /\ top.f = "dict"
    /\ heap' = [heap EXCEPT ![top.a] = dict_set(@, key, reg)]
    /\ NextKey
    /\ mode' = "step"
    /\ UNCHANGED <<input, state, reg, err, scope, calls, defined>>

DictReturn ==
    /\ mode = "step" /\ top.f = "dict" /\ top.i > Len(top.keys)
    /\ Pop
    /\ Return(RefV(top.a))
    /\ UNCHANGED <<input, state, heap, err, scope, calls, defined>>

----------------------------------------------------------------------------
(* resolve_list: [resolve(ctx, val, state) for val in tree] *)

ListNext ==
    /\ mode = "step" /\ top.f = "list" /\ top.i <= Len(top.src)
    /\ Call(top.src[top.i])
    /\ UNCHANGED <<input, state, heap, stack, err, scope, calls, defined>>

\* the resolved element is not collected
ListStoreDropped ==
    /\ mode = "ret" /\ stack # <<>> /\ top.f = "list"
    /\ SetTop([top EXCEPT !.i = @ + 1])
    /\ mode' = "step"
    /\ UNCHANGED <<input, state, heap, reg, err, scope, calls, defined>>

ListStore ==
    /\ mode = "ret" /\ stack # <<>> /\ top.f = "list"
    /\ SetTop([top EXCEPT !.acc = Append(@, reg), !.i = @ + 1])
    /\ mode' = "step"
    /\ UNCHANGED <<input, state, heap, reg, err, scope, calls, defined>>

ListReturn ==
    /\ mode = "step" /\ top.f = "list" /\ top.i > Len(top.src)
    /\ Pop
    /\ Return(ListV(top.acc))
    /\ UNCHANGED <<input, state, heap, err, scope, calls, defined>>

----------------------------------------------------------------------------
(* include, and the rest of the otk.external branch *)

\* file = path / pathlib.Path(tree): no name path is bound in include
IncludeLoad ==
    /\ mode = "ret" /\ stack # <<>> /\ top.f = "include"
    /\ Raise("NameError")
    /\ UNCHANGED <<input, state, heap, scope, calls, defined>>

\* call(key, value), then resolve(ctx, result) without the argument state
ExternalCall ==
    /\ mode = "ret" /\ stack # <<>> /\ top.f = "external"
    /\ LET r == call(top.key, reg) IN
         IF r.st = "ok" THEN Raise("TypeError") ELSE Raise(r.st)
    /\ UNCHANGED <<input, state, heap, scope, calls, defined>>

\* the outermost resolve returns to the caller
Finish ==
    /\ mode = "ret" /\ stack = <<>>
    /\ mode' = "done"
    /\ UNCHANGED <<input, state, heap, stack, reg, err, scope, calls, defined>>

Next ==
    \/ ResolveDict \/ ResolveList \/ ResolveStr \/ ResolveScalar
    \/ ResolveUnsupported
    \/ Define \/ Version \/ Target \/ Include \/ Op \/ External \/ Unknown
    \/ Field \/ FieldDefineFails \/ FieldStore \/ DictReturn
    \/ ListNext \/ ListStore \/ ListReturn
    \/ IncludeLoad \/ ExternalCall \/ Finish

Spec == Init /\ [][Next]_vars

----------------------------------------------------------------------------
(* Properties *)

finished == mode \in {"done", "raise"}

root == input.tree

rootItems == IF root.t = "dict" THEN root.items ELSE <<>>

\* the tree the session returned
out == Deref(reg, heap, Depth)

Reserved(k) == startswith(k, "otk.")

\* the reserved keys the output may keep: otk.version and otk.target.*
Retained(k) == k = "otk.version" \/ startswith(k, "otk.target.")

RECURSIVE NoDirectives(_)
NoDirectives(node) ==
    CASE node.t = "dict" ->
           \A i \in 1..Len(node.items) :
              /\ Reserved(node.items[i].k) => Retained(node.items[i].k)
              /\ NoDirectives(node.items[i].v)
      [] node.t = "list" -> \A i \in 1..Len(node.e) : NoDirectives(node.e[i])
      [] OTHER -> TRUE

RECURSIVE NoTemplates(_)
NoTemplates(node) ==
    CASE node.t = "dict" ->
           \A i \in 1..Len(node.items) : NoTemplates(node.items[i].v)
      [] node.t = "list" -> \A i \in 1..Len(node.e) : NoTemplates(node.e[i])
      [] node.t = "str" -> ~IsRef(node.s)
      [] OTHER -> TRUE

\* the files the include payloads of the inputs name
FileF == DictV(<<Item("x", IntV(2))>>)
FileG == DictV(<<Item("otk.include", StrV("g"))>>)

IncludeF == Item("otk.include", StrV("f"))

\* C1: a tree resolve returns has, at every depth, no otk. key other than
\* otk.version and otk.target.*
OutputDirectiveFree == mode = "done" => NoDirectives(out)

\* C2: a field referencing a resolves to a's value when the otk.define binding
\* a precedes it in the mapping, and fails with UndefinedVariableError when the
\* define follows it
OrderSensitivity ==
    (finished /\ Len(rootItems) = 2 /\ input.vars = NoVars) =>
        /\ ( /\ rootItems[1] = Item("otk.define", BindsA)
             /\ rootItems[2] = Item("x", StrV("${a}")) )
           => (mode = "done" /\ dict_get(out.items, "x") = IntV(1))
        /\ ( /\ rootItems[1] = Item("x", StrV("${a}"))
             /\ rootItems[2] = Item("otk.define", BindsA) )
           => (mode = "raise" /\ err = "UndefinedVariableError")

\* C3: a mapping whose first key is a reserved key of unrecognized kind fails
\* with UnknownDirectiveError and returns no tree
UnknownDirectiveFails ==
    (finished /\ Len(rootItems) >= 1 /\ Kind(rootItems[1].k) = "unknown") =>
        (mode = "raise" /\ err = "UnknownDirectiveError")

\* C4: what an include produces overwrites the sibling of the same name,
\* whether the sibling comes before or after the include key
IncludeOverrides ==
    (finished /\ rootItems \in { <<IncludeF, Item("x", IntV(1))>>,
                                 <<Item("x", IntV(1)), IncludeF>> }) =>
        (mode = "done" /\ out = FileF)

\* C5: resolving a file that includes itself ends with IncludeCycleError
IncludeCycleRejected ==
    (finished /\ root = FileG) => (mode = "raise" /\ err = "IncludeCycleError")

\* C6: processing otk.version or an otk.target.* key changes neither the value
\* under the key, nor the scope, and hands nothing to resolve or to the
\* Interpolator; the key is in the returned mapping with its value as it was
\* in the input
PassthroughUntouched ==
    /\ [](mode = "done" =>
            \A i \in 1..Len(rootItems) :
               Retained(rootItems[i].k) =>
                  /\ out.t = "dict"
                  /\ dict_has(out.items, rootItems[i].k)
                  /\ dict_get(out.items, rootItems[i].k) = rootItems[i].v)
    /\ [][(mode = "step" /\ top.f = "dict" /\ top.i <= Len(top.keys)
             /\ Retained(key)) =>
            /\ mode' = "step"
            /\ Len(stack') = Len(stack)
            /\ heap' = heap
            /\ scope' = scope
            /\ calls' = calls
            /\ defined' = defined]_vars

\* C7: otk.define with a mapping payload registers each entry in the scope,
\* is dropped from the output and adds no field; any other payload fails with
\* StructuralError
DefineRegisters ==
    (finished /\ Len(rootItems) = 1 /\ rootItems[1].k = "otk.define") =>
        IF rootItems[1].v.t = "dict"
        THEN /\ mode = "done"
             /\ out = DictV(<<>>)
             /\ \A i \in 1..Len(rootItems[1].v.items) :
                   LET it == rootItems[1].v.items[i] IN
                     it.k \in DOMAIN scope /\ scope[it.k] = it.v
        ELSE mode = "raise" /\ err = "StructuralError"

\* C8 as stated: a tree without reserved keys other than otk.version and
\* otk.target.* is returned equal to the input
DirectiveFreeUnchanged == (mode = "done" /\ NoDirectives(root)) => out = root

\* C8 amended: a tree without reserved keys other than otk.version and
\* otk.target.*, and without a string that is a variable reference, is
\* returned equal to the input
PlainTreeUnchanged ==
    (mode = "done" /\ NoDirectives(root) /\ NoTemplates(root)) => out = root

\* a mapping holding a plain string and a list of a mapping came back equal
PlainTreeWitness ==
    /\ mode = "done"
    /\ rootItems = <<Item("m", ListV(<<BindsA>>)), Item("x", StrV("s"))>>
    /\ out = root

\* C9: a binding created inside a nested mapping, or inside a mapping that is
\* a sequence element, is visible to the sibling resolved after it: the scope
\* holds it after the subtree has returned, and the sibling's reference
\* resolves to it
BindingVisibleLater ==
    (finished /\ ~input.state.in_define /\ input.vars = NoVars
       /\ Len(rootItems) = 2
       /\ rootItems[1].k = "m"
       /\ rootItems[1].v \in {DefinesA, ListV(<<DefinesA>>)}
       /\ rootItems[2] = Item("x", StrV("${a}"))) =>
        /\ mode = "done"
        /\ "a" \in DOMAIN scope
        /\ dict_get(out.items, "x") = IntV(1)

\* C10: after an include the enclosing mapping goes on with its own base path:
\* the sibling after the include is resolved and the session returns
IncludeRebases ==
    (finished /\ Len(rootItems) = 2 /\ rootItems[1] = IncludeF
       /\ rootItems[2].k = "m" /\ rootItems[2].v \in {IntV(1), StrV("s")}) =>
        /\ mode = "done"
        /\ state = input.state
        /\ dict_get(out.items, "m") = rootItems[2].v

====
